---- MODULE Spec2Model ----
(***************************************************************************)
(* bod-diagnostics: the command line front end (cli.py) reads a CSV file   *)
(* row by row and hands every row to the parse_row method of one of the    *)
(* two report parsers of report_parsers.py, HTTPSReport or                 *)
(* TrustymailReport.                                                       *)
(*                                                                         *)
(* Python values are tagged records [kind, val]: a str, a bool, None, or   *)
(* an exception that an expression raised.  A CSV row is a function from   *)
(* field names to such values; a field the row lacks is outside its        *)
(* DOMAIN.  Strings are TLA+ strings, taken apart character by character   *)
(* with Len and SubSeq.                                                    *)
(***************************************************************************)
EXTENDS Integers, Sequences, FiniteSets, TLC

VARIABLES
    args,            \* cli.py: the parsed command line, [report, domains]
    pc,              \* cli.py main(): "read", "parse", "output", "done", "failed"
    n_read,          \* rows the csv reader has delivered so far
    csv_row,         \* the row handed to parse_row (NoRow between rows)
    _domains,        \* HTTPSReport/TrustymailReport._domains
    _results,        \* HTTPSReport._results
    _count_values,   \* TrustymailReport._count_values
    _failed_domains, \* TrustymailReport._failed_domains
    err,             \* the exception that ended the run (NoErr if none)
    included,        \* history: rows so far whose Domain the filter admits
    last_row,        \* history: lower-cased Domain -> the last admitted HTTPS row
    stdout,          \* what output_results printed: [listed, records, counts]
    file,            \* the rows fed to a TrustymailReport used as a library
    order,           \* the order a second TrustymailReport is fed the file in
    second           \* the second TrustymailReport: [n, counts, failed]

vars == <<args, pc, n_read, csv_row, _domains, _results, _count_values,
          _failed_domains, err, included, last_row, stdout, file, order, second>>

-----------------------------------------------------------------------------
(* Bounds of the model. *)

\* Rows in the CSV file.
MaxRows == 2

-----------------------------------------------------------------------------
(* Python values. *)

Str(s) == [kind |-> "str", val |-> s]

Bool(b) == [kind |-> "bool", val |-> b]

None == [kind |-> "none", val |-> ""]

KeyError(f) == [kind |-> "KeyError", val |-> f]

AttributeError(a) == [kind |-> "AttributeError", val |-> a]

IsExc(v) == v.kind \in {"KeyError", "AttributeError"}

\* A truth test that takes only the boolean True for true.
Truthy_of_True_only(v) == v.kind = "bool" /\ v.val

\* bool(v): False, None and the empty string are falsy.
Truthy(v) ==
    CASE v.kind = "bool" -> v.val
      [] v.kind = "str" -> v.val # ""
      [] OTHER -> FALSE

\* a or b: the first operand when it is truthy, else the second; the second
\* is not evaluated (cannot raise) when the first is truthy.
PyOr(a, b) == IF IsExc(a) THEN a ELSE IF Truthy(a) THEN a ELSE b

\* a and b: the first operand when it is falsy, else the second.
PyAnd(a, b) == IF IsExc(a) THEN a ELSE IF Truthy(a) THEN b ELSE a

\* not a
PyNot(a) == IF IsExc(a) THEN a ELSE Bool(~Truthy(a))

\* a == "literal"
PyEq(a, s) == IF IsExc(a) THEN a ELSE Bool(a = Str(s))

\* row[f]: KeyError when the row has no such field.
Get(row, f) == IF f \in DOMAIN row THEN row[f] ELSE KeyError(f)

-----------------------------------------------------------------------------
(* str.lower, str.strip and str.split, character by character. *)

UpperCase == <<"A", "B", "C", "D", "E", "F", "G", "H", "I", "J", "K", "L", "M",
               "N", "O", "P", "Q", "R", "S", "T", "U", "V", "W", "X", "Y", "Z">>

LowerCase == <<"a", "b", "c", "d", "e", "f", "g", "h", "i", "j", "k", "l", "m",
               "n", "o", "p", "q", "r", "s", "t", "u", "v", "w", "x", "y", "z">>

\* The lower-case letter of every upper-case letter.
LowerOf == [c \in {UpperCase[i] : i \in 1..26} |->
               LowerCase[CHOOSE i \in 1..26 : UpperCase[i] = c]]

LowerChar(c) == IF c \in DOMAIN LowerOf THEN LowerOf[c] ELSE c

RECURSIVE Lower(_)
Lower(s) ==
    IF Len(s) = 0 THEN ""
    ELSE LowerChar(SubSeq(s, 1, 1)) \o Lower(SubSeq(s, 2, Len(s)))

Whitespace == {" ", "\t", "\n", "\r"}

RECURSIVE LStrip(_)
LStrip(s) ==
    IF Len(s) > 0 /\ SubSeq(s, 1, 1) \in Whitespace
    THEN LStrip(SubSeq(s, 2, Len(s)))
    ELSE s

RECURSIVE RStrip(_)
RStrip(s) ==
    IF Len(s) > 0 /\ SubSeq(s, Len(s), Len(s)) \in Whitespace
    THEN RStrip(SubSeq(s, 1, Len(s) - 1))
    ELSE s

Strip(s) == LStrip(RStrip(s))

\* s.split(","): the pieces between commas, empty pieces kept.
RECURSIVE SplitFrom(_, _, _)
SplitFrom(s, i, piece) ==
    IF i > Len(s) THEN <<piece>>
    ELSE IF SubSeq(s, i, i) = ","
         THEN <<piece>> \o SplitFrom(s, i + 1, "")
         ELSE SplitFrom(s, i + 1, piece \o SubSeq(s, i, i))

Split(s) == SplitFrom(s, 1, "")

-----------------------------------------------------------------------------
(* The texts a CSV file and the command line may hold. *)

BoolTexts == {"True", "False"}

\* The Domain column; the second and third differ in letter case only.
HTTPSDomains == {"sub.example.com", "example.com", "EXAMPLE.com"}

\* The Domain and Domain Is Base Domain columns of a trustymail row: a base
\* domain and one of its subdomains.
TrustymailDomains == {<<"EXAMPLE.com", "True">>, <<"sub.example.com", "False">>}

\* The DOMAIN arguments of the command line.
DomainArgs == {<<>>, <<"Example.com">>}

\* The DMARC columns of a row: Valid DMARC, Valid DMARC Record on Base Domain,
\* DMARC Policy, DMARC Subdomain Policy, DMARC Policy Percentage and
\* DMARC Aggregate Report URIs.
DmarcCases ==
    { <<"True", "False", "reject", "reject", "100",
        "mailto:a@example.com, Mailto:Reports@DMARC.cyber.dhs.gov ">>,
      <<"True", "False", "reject", "reject", "100", "mailto:other@example.com">>,
      <<"True", "True", "reject", "reject", "100",
        "mailto:reports@dmarc.cyber.dhs.gov.example.com">>,
      <<"False", "True", "reject", "reject", "100",
        "mailto:reports@dmarc.cyber.dhs.gov">>,
      <<"True", "False", "quarantine", "reject", "100", "mailto:other@example.com">>,
      <<"True", "False", "reject", "none", "100",
        "mailto:reports@dmarc.cyber.dhs.gov">>,
      <<"True", "False", "reject", "reject", "50",
        "mailto:reports@dmarc.cyber.dhs.gov">>,
      <<"False", "False", "reject", "reject", "100",
        "mailto:reports@dmarc.cyber.dhs.gov">> }

\* A text in a boolean column that is neither true nor false.
OddTexts == {"Unknown"}

\* Every text of the rows and of the command line.
Texts ==
    BoolTexts \cup OddTexts \cup HTTPSDomains \cup {d[1] : d \in TrustymailDomains}
    \cup UNION {{a[i] : i \in 1..Len(a)} : a \in DomainArgs}
    \cup {m[i] : m \in DmarcCases, i \in 1..6}

\* The string methods on the texts of the model, tabulated once.
LowerOfText == [s \in Texts |-> Lower(s)]

StripLowerOfText == [s \in Texts |-> Lower(Strip(s))]

SplitStripLowerOfText ==
    [s \in Texts |-> [i \in 1..Len(Split(s)) |-> Lower(Strip(Split(s)[i]))]]

\* s.lower()
str_lower(s) == IF s \in Texts THEN LowerOfText[s] ELSE Lower(s)

\* s.strip().lower()
str_strip_lower(s) ==
    IF s \in Texts THEN StripLowerOfText[s] ELSE Lower(Strip(s))

\* [u.strip().lower() for u in s.split(",")]
str_split_strip_lower(s) ==
    IF s \in Texts THEN SplitStripLowerOfText[s]
    ELSE [i \in 1..Len(Split(s)) |-> Lower(Strip(Split(s)[i]))]

-----------------------------------------------------------------------------
(* _utils.convert_booleans *)

\* One value of the row: None is skipped, "true"/"false" in any case and
\* padding become booleans, other strings stay; a value that is neither None
\* nor a str has no strip method.
ConvertValue(v) ==
    CASE v.kind = "none" -> v
      [] v.kind = "str" ->
            LET text == str_strip_lower(v.val) IN
            IF text = "true" THEN Bool(TRUE)
            ELSE IF text = "false" THEN Bool(FALSE)
            ELSE v
      [] OTHER -> AttributeError("strip")

\* convert_booleans(row): every value converted in place.  A value that has
\* no strip method turns up as the AttributeError the call then raises.
convert_booleans(row) == [k \in DOMAIN row |-> ConvertValue(row[k])]

\* Whether the call raised.
ConvertRaises(converted) == \E k \in DOMAIN converted : IsExc(converted[k])

\* The first exception among the values of the statements, in program order.
FirstExc(values) ==
    IF \E i \in 1..Len(values) : IsExc(values[i])
    THEN values[CHOOSE i \in 1..Len(values) :
                    /\ IsExc(values[i])
                    /\ \A j \in 1..(i - 1) : ~IsExc(values[j])]
    ELSE None

NoErr == None

-----------------------------------------------------------------------------
(* The constructors: HTTPSReport.__init__ and TrustymailReport.__init__. *)

\* self._domains = [domain.lower() for domain in domains]
LowerAll(domains) == [i \in 1..Len(domains) |-> str_lower(domains[i])]

\* A filter that compares the Domain as the row writes it.
DomainWanted_case_sensitive(domains, row) ==
    IF domains = <<>> THEN Bool(TRUE)
    ELSE LET d == Get(row, "Domain") IN
         IF IsExc(d) THEN d
         ELSE IF d.kind # "str" THEN AttributeError("lower")
         ELSE Bool(\E i \in 1..Len(domains) : domains[i] = d.val)

\* The domain filter both parse_row methods start with: Bool(TRUE) to go on,
\* Bool(FALSE) to return at once, or the exception the test raises.
DomainWanted(domains, row) ==
    IF domains = <<>> THEN Bool(TRUE)
    ELSE LET d == Get(row, "Domain") IN
         IF IsExc(d) THEN d
         ELSE IF d.kind # "str" THEN AttributeError("lower")
         ELSE Bool(\E i \in 1..Len(domains) : domains[i] = str_lower(d.val))

-----------------------------------------------------------------------------
(* HTTPSReport *)

plain_values == <<"Live", "Base Domain HSTS Preloaded", "Domain Supports HTTPS",
                  "Domain Enforces HTTPS", "Domain Uses Strong HSTS">>

\* Scores whose overall position asks for any one of the three checks.
Scores_overall_any(supports, enforces, hsts, fallback) ==
    << PyOr(supports, fallback),
       PyOr(enforces, fallback),
       PyOr(hsts, fallback),
       PyOr(PyOr(PyOr(supports, enforces), hsts), fallback) >>

\* Scores whose overall position leaves the fallback check out.
Scores_overall_without_fallback(supports, enforces, hsts, fallback) ==
    << PyOr(supports, fallback),
       PyOr(enforces, fallback),
       PyOr(hsts, fallback),
       PyAnd(PyAnd(supports, enforces), hsts) >>

\* result_dict["Scores"]
Scores(supports, enforces, hsts, fallback) ==
    << PyOr(supports, fallback),
       PyOr(enforces, fallback),
       PyOr(hsts, fallback),
       PyOr(PyAnd(PyAnd(supports, enforces), hsts), fallback) >>

\* A key that keeps the letter case of the row.
ResultKey_as_written(row) ==
    LET d == Get(row, "Domain") IN
    IF IsExc(d) THEN d
    ELSE IF d.kind # "str" THEN AttributeError("lower")
    ELSE Str(d.val)

\* The key the result is stored under: csv_row["Domain"].lower()
ResultKey(row) ==
    LET d == Get(row, "Domain") IN
    IF IsExc(d) THEN d
    ELSE IF d.kind # "str" THEN AttributeError("lower")
    ELSE Str(str_lower(d.val))

\* The dictionary with one key set, as Python's d[k] = v.
SetItem(d, k, v) == [x \in DOMAIN d \cup {k} |-> IF x = k THEN v ELSE d[x]]

\* A result that is kept for a failing domain only: an empty dictionary when
\* no score is False.
ResultDict_failing_only(row, scores) ==
    IF \E i \in 1..Len(scores) : scores[i] = Bool(FALSE)
    THEN [f \in {plain_values[i] : i \in 1..Len(plain_values)} \cup {"Scores"} |->
            IF f = "Scores" THEN scores ELSE row[f]]
    ELSE [f \in {} |-> None]

\* result_dict: the five fields of the row and the scores.
ResultDict(row, scores) ==
    [f \in {plain_values[i] : i \in 1..Len(plain_values)} \cup {"Scores"} |->
        IF f = "Scores" THEN scores ELSE row[f]]

\* HTTPSReport.parse_row from the row convert_booleans returned.
HTTPSScoreRow(results, row) ==
    LET domain_live == Get(row, "Live")
        domain_hsts_preload == Get(row, "Base Domain HSTS Preloaded")
        domain_fallback_check == PyAnd(domain_live, domain_hsts_preload)
        domain_supports_https == Get(row, "Domain Supports HTTPS")
        domain_enforces_https == Get(row, "Domain Enforces HTTPS")
        domain_strong_hsts == Get(row, "Domain Uses Strong HSTS")
        key == ResultKey(row)
        raised == FirstExc(<<domain_live, domain_hsts_preload,
                             domain_supports_https, domain_enforces_https,
                             domain_strong_hsts, key>>)
        result_dict ==
            ResultDict(row, Scores(domain_supports_https, domain_enforces_https,
                                   domain_strong_hsts, domain_fallback_check))
    IN  IF ConvertRaises(row)
        THEN [results |-> results, err |-> AttributeError("strip")]
        ELSE IF IsExc(raised) THEN [results |-> results, err |-> raised]
        ELSE [results |-> SetItem(results, key.val, result_dict), err |-> NoErr]

\* HTTPSReport.parse_row: the new [results, err].
HTTPSParseRow(results, domains, raw) ==
    LET wanted == DomainWanted(domains, raw) IN
    IF IsExc(wanted) THEN [results |-> results, err |-> wanted]
    ELSE IF ~wanted.val THEN [results |-> results, err |-> NoErr]
    ELSE HTTPSScoreRow(results, convert_booleans(raw))

-----------------------------------------------------------------------------
(* TrustymailReport *)

bod_rua_url == "mailto:reports@dmarc.cyber.dhs.gov"

\* self._count_values[name], a defaultdict(lambda: 0)
Count(counts, name) == IF name \in DOMAIN counts THEN counts[name] ELSE 0

\* An increment that starts the dictionary afresh with the one counter.
Increment_forgetting_others(counts, name) ==
    [x \in {name} |-> Count(counts, name) + 1]

\* An increment that loses the count of smtp_valid.
Increment_without_smtp_valid(counts, name) ==
    IF name = "smtp_valid" THEN counts
    ELSE SetItem(counts, name, Count(counts, name) + 1)

\* An increment that counts a domain twice in total_domains.
Increment_total_domains_twice(counts, name) ==
    SetItem(counts, name, Count(counts, name) + (IF name = "total_domains" THEN 2 ELSE 1))

\* self._count_values[name] += 1
Increment(counts, name) == SetItem(counts, name, Count(counts, name) + 1)

\* [u.strip().lower() for u in csv_row["DMARC Aggregate Report URIs"].split(",")]
\* as a Python value: the list (kind "list"), or the exception it raises.
RuaUrls(row) ==
    LET uris == Get(row, "DMARC Aggregate Report URIs") IN
    IF IsExc(uris) THEN uris
    ELSE IF uris.kind # "str" THEN AttributeError("split")
    ELSE [kind |-> "list",
          val |-> str_split_strip_lower(uris.val)]

\* valid_dmarc = csv_row["Valid DMARC"] or csv_row["Valid DMARC Record on Base Domain"]
ValidDmarc(row) ==
    PyOr(Get(row, "Valid DMARC"), Get(row, "Valid DMARC Record on Base Domain"))

\* A policy check that does not ask for a valid DMARC record.
ValidDmarcPolicyReject_policy_only(row, valid_dmarc) ==
    PyEq(Get(row, "DMARC Policy"), "reject")

\* valid_dmarc_policy_reject
ValidDmarcPolicyReject(row, valid_dmarc) ==
    PyAnd(valid_dmarc, PyEq(Get(row, "DMARC Policy"), "reject"))

\* valid_dmarc_subdomain_policy_reject
ValidDmarcSubdomainPolicyReject(row, valid_dmarc) ==
    PyAnd(valid_dmarc,
          PyOr(PyNot(Get(row, "Domain Is Base Domain")),
               PyEq(Get(row, "DMARC Subdomain Policy"), "reject")))

\* valid_dmarc_policy_pct
ValidDmarcPolicyPct(row, valid_dmarc) ==
    PyAnd(valid_dmarc, PyEq(Get(row, "DMARC Policy Percentage"), "100"))

\* valid_dmarc_policy_of_reject
ValidDmarcPolicyOfReject(policy_reject, subdomain_policy_reject, policy_pct) ==
    PyAnd(PyAnd(policy_reject, subdomain_policy_reject), policy_pct)

\* An SPF check that lets a subdomain inherit whether or not it has an SPF
\* record of its own.
SpfCovered_without_record_check(row, valid_dmarc_policy_of_reject) ==
    LET base == Get(row, "Domain Is Base Domain") IN
    IF IsExc(base) THEN base
    ELSE IF Truthy(base) THEN Get(row, "Valid SPF")
    ELSE PyOr(Get(row, "Valid SPF"), valid_dmarc_policy_of_reject)

\* An SPF check that lets a base domain inherit from its DMARC policy as a
\* subdomain does.
SpfCovered_base_inherits(row, valid_dmarc_policy_of_reject) ==
    PyOr(Get(row, "Valid SPF"),
         PyAnd(PyNot(Get(row, "SPF Record")), valid_dmarc_policy_of_reject))

\* spf_covered
SpfCovered(row, valid_dmarc_policy_of_reject) ==
    LET base == Get(row, "Domain Is Base Domain") IN
    IF IsExc(base) THEN base
    ELSE IF Truthy(base) THEN Get(row, "Valid SPF")
    ELSE PyOr(Get(row, "Valid SPF"),
              PyAnd(PyNot(Get(row, "SPF Record")), valid_dmarc_policy_of_reject))

\* A report-address check that does not ask for a valid DMARC record.
ValidDmarcBod1801RuaUrl_without_valid_dmarc(row, valid_dmarc) ==
    LET urls == RuaUrls(row) IN
    IF IsExc(urls) THEN urls
    ELSE Bool(\E i \in 1..Len(urls.val) : urls.val[i] = bod_rua_url)

\* valid_dmarc_bod1801_rua_url
ValidDmarcBod1801RuaUrl(row, valid_dmarc) ==
    IF ~Truthy(valid_dmarc) THEN Bool(FALSE)
    ELSE LET urls == RuaUrls(row) IN
         IF IsExc(urls) THEN urls
         ELSE Bool(\E i \in 1..Len(urls.val) : urls.val[i] = bod_rua_url)

\* The record appended to _failed_domains for a domain whose DMARC policy is
\* not valid, or the first exception that building it raises.
FailureRecord(row, valid_dmarc, conditions) ==
    LET raised == FirstExc(<<Get(row, "DMARC Policy"),
                             Get(row, "DMARC Subdomain Policy"),
                             Get(row, "DMARC Policy Percentage"),
                             RuaUrls(row), Get(row, "Domain")>>)
    IN  IF IsExc(raised) THEN raised
        ELSE [kind |-> "dict",
              val |->
                [domain |-> row["Domain"],
                 result |->
                    [k \in {"Base Domain", "Valid DMARC", "DMARC Policy",
                            "DMARC Subdomain Policy", "DMARC Policy Percentage",
                            "Conditions", "RUA URLs"} |->
                        CASE k = "Base Domain" -> row["Domain Is Base Domain"]
                          [] k = "Valid DMARC" -> valid_dmarc
                          [] k = "Conditions" -> conditions
                          [] k = "RUA URLs" -> RuaUrls(row).val
                          [] OTHER -> row[k]]]]

\* The nested ifs of parse_row, from the counters after total_domains was
\* counted: the new [counts, failed, err].
Funnel(counts, failed, row, spf_covered, valid_dmarc_policy_of_reject, valid_dmarc_bod1801_rua_url, record) ==
    LET base == Get(row, "Domain Is Base Domain")
        supports_smtp == Get(row, "Domain Supports SMTP")
        eligible == PyOr(base, PyAnd(PyNot(base), supports_smtp))
        smtp_ok == PyOr(PyAnd(supports_smtp, Get(row, "Domain Supports STARTTLS")),
                        PyNot(supports_smtp))
        weak == Get(row, "Domain Supports Weak Crypto")
        c_checked == Increment(counts, "domains_checked")
        c_smtp_valid == Increment(c_checked, "smtp_valid")
        c_spf_covered == Increment(c_smtp_valid, "spf_covered")
        c_no_weak_crypto == Increment(c_spf_covered, "no_weak_crypto")
        c_dmarc_valid == Increment(c_no_weak_crypto, "dmarc_valid")
        c_dmarc_invalid == Increment(c_no_weak_crypto, "dmarc_invalid")
        Done(c) == [counts |-> c, failed |-> failed, err |-> NoErr]
        Raise(c, e) == [counts |-> c, failed |-> failed, err |-> e]
    IN
    IF IsExc(eligible) THEN Raise(counts, eligible)
    ELSE IF ~Truthy(eligible) THEN Done(Increment(counts, "domains_skipped"))
    ELSE IF IsExc(smtp_ok) THEN Raise(c_checked, smtp_ok)
    ELSE IF ~Truthy(smtp_ok) THEN Done(Increment(c_checked, "smtp_invalid"))
    ELSE IF ~Truthy(spf_covered) THEN Done(Increment(c_smtp_valid, "spf_not_covered"))
    ELSE IF IsExc(weak) THEN Raise(c_spf_covered, weak)
    ELSE IF Truthy(weak) THEN Done(Increment(c_spf_covered, "has_weak_crypto"))
    ELSE IF Truthy(valid_dmarc_policy_of_reject)
         THEN IF Truthy(valid_dmarc_bod1801_rua_url)
              THEN Done(Increment(c_dmarc_valid, "bod_compliant"))
              ELSE Done(Increment(c_dmarc_valid, "bod_failed"))
    ELSE IF IsExc(record) THEN Raise(c_dmarc_invalid, record)
    ELSE [counts |-> c_dmarc_invalid,
          failed |-> Append(failed, record.val),
          err |-> NoErr]

\* TrustymailReport.parse_row from the row convert_booleans returned.
TrustymailScoreRow(counts, failed, row) ==
    LET counted == Increment(counts, "total_domains")
        valid_dmarc == ValidDmarc(row)
        valid_dmarc_policy_reject == ValidDmarcPolicyReject(row, valid_dmarc)
        valid_dmarc_subdomain_policy_reject ==
            ValidDmarcSubdomainPolicyReject(row, valid_dmarc)
        valid_dmarc_policy_pct == ValidDmarcPolicyPct(row, valid_dmarc)
        valid_dmarc_policy_of_reject ==
            ValidDmarcPolicyOfReject(valid_dmarc_policy_reject,
                                     valid_dmarc_subdomain_policy_reject,
                                     valid_dmarc_policy_pct)
        spf_covered == SpfCovered(row, valid_dmarc_policy_of_reject)
        valid_dmarc_bod1801_rua_url == ValidDmarcBod1801RuaUrl(row, valid_dmarc)
        raised == FirstExc(<<valid_dmarc, valid_dmarc_policy_reject,
                             valid_dmarc_subdomain_policy_reject,
                             valid_dmarc_policy_pct, spf_covered,
                             valid_dmarc_bod1801_rua_url>>)
    IN  IF ConvertRaises(row)
        THEN [counts |-> counts, failed |-> failed, err |-> AttributeError("strip")]
        ELSE IF IsExc(raised)
        THEN [counts |-> counted, failed |-> failed, err |-> raised]
        ELSE Funnel(counted, failed, row, spf_covered, valid_dmarc_policy_of_reject,
                    valid_dmarc_bod1801_rua_url,
                    FailureRecord(row, valid_dmarc,
                                  <<valid_dmarc_policy_reject,
                                    valid_dmarc_subdomain_policy_reject,
                                    valid_dmarc_policy_pct>>))

\* A parse_row that scores nothing more once a failure record exists.
TrustymailParseRow_idle_after_failure(counts, failed, domains, raw) ==
    LET wanted == DomainWanted(domains, raw) IN
    IF IsExc(wanted) THEN [counts |-> counts, failed |-> failed, err |-> wanted]
    ELSE IF ~wanted.val \/ failed # <<>>
         THEN [counts |-> counts, failed |-> failed, err |-> NoErr]
    ELSE TrustymailScoreRow(counts, failed, convert_booleans(raw))

\* TrustymailReport.parse_row: the new [counts, failed, err].
TrustymailParseRow(counts, failed, domains, raw) ==
    LET wanted == DomainWanted(domains, raw) IN
    IF IsExc(wanted) THEN [counts |-> counts, failed |-> failed, err |-> wanted]
    ELSE IF ~wanted.val THEN [counts |-> counts, failed |-> failed, err |-> NoErr]
    ELSE TrustymailScoreRow(counts, failed, convert_booleans(raw))

-----------------------------------------------------------------------------
(* The rows a CSV file may hold. *)

HTTPSRows ==
    { [f \in {"Domain"} \cup {plain_values[i] : i \in 1..Len(plain_values)} |->
          Str(IF f = "Domain" THEN d ELSE b[f])] :
      d \in HTTPSDomains,
      b \in [{plain_values[i] : i \in 1..Len(plain_values)} -> BoolTexts] }

DmarcFields == <<"Valid DMARC", "Valid DMARC Record on Base Domain", "DMARC Policy",
                 "DMARC Subdomain Policy", "DMARC Policy Percentage",
                 "DMARC Aggregate Report URIs">>

FunnelFields == {"Valid SPF", "SPF Record", "Domain Supports SMTP",
                 "Domain Supports STARTTLS", "Domain Supports Weak Crypto"}

TrustymailRows ==
    { [f \in {"Domain", "Domain Is Base Domain"} \cup FunnelFields
             \cup {DmarcFields[i] : i \in 1..6} |->
          Str(IF f = "Domain" THEN d[1]
              ELSE IF f = "Domain Is Base Domain" THEN d[2]
              ELSE IF f \in FunnelFields THEN b[f]
              ELSE m[CHOOSE i \in 1..6 : DmarcFields[i] = f])] :
      d \in TrustymailDomains, b \in [FunnelFields -> BoolTexts], m \in DmarcCases }

NoRow == [f \in {} |-> None]

-----------------------------------------------------------------------------
(* cli.main *)

\* A fresh TrustymailReport that has been fed no row.
FreshReport == [n |-> 0, counts |-> [k \in {} |-> 0], failed |-> <<>>]

\* Nothing printed yet.
NoOutput == [listed |-> [k \in {} |-> NoRow], records |-> <<>>, counts |-> [k \in {} |-> 0]]

\* False in scores
FalseIn(scores) == \E i \in 1..Len(scores) : scores[i] = Bool(FALSE)

\* HTTPSReport.output_results: the record of every stored domain with a False
\* among its scores is printed.
HTTPSOutputResults(results) ==
    [listed |-> [k \in {d \in DOMAIN results : FalseIn(results[d]["Scores"])} |->
                    results[k]],
     records |-> <<>>,
     counts |-> [k \in {} |-> 0]]

\* TrustymailReport.output_results: every failure record is printed, then
\* every counter.
TrustymailOutputResults(failed, counts) ==
    [listed |-> [k \in {} |-> NoRow], records |-> failed, counts |-> counts]

\* Whether the domain filter of the command line admits the row.
Admitted(domain_args, row) ==
    \/ domain_args = <<>>
    \/ \E i \in 1..Len(domain_args) : str_lower(domain_args[i]) = str_lower(row["Domain"].val)

Init ==
    /\ args \in [report : {"https", "trustymail"}, domains : DomainArgs]
    /\ pc = "read"
    /\ n_read = 0
    /\ csv_row = NoRow
    /\ _domains = LowerAll(args.domains)
    /\ _results = [k \in {} |-> None]
    /\ _count_values = [k \in {} |-> 0]
    /\ _failed_domains = <<>>
    /\ err = NoErr
    /\ included = 0
    /\ last_row = [k \in {} |-> NoRow]
    /\ stdout = NoOutput
    /\ file = <<>>
    /\ order = <<>>
    /\ second = FreshReport

\* for row in csv_reader: the reader delivers the next row of the file.
ReadRow ==
    /\ pc = "read"
    /\ n_read < MaxRows
    /\ \E row \in (IF args.report = "https" THEN HTTPSRows ELSE TrustymailRows) :
            csv_row' = row
    /\ n_read' = n_read + 1
    /\ pc' = "parse"
    /\ UNCHANGED <<args, _domains, _results, _count_values, _failed_domains, err,
                   included, last_row, stdout, file, order, second>>

\* parser.parse_row(row) with parser an HTTPSReport.
ParseRowHTTPS ==
    /\ pc = "parse"
    /\ args.report = "https"
    /\ LET out == HTTPSParseRow(_results, _domains, csv_row) IN
        /\ _results' = out.results
        /\ err' = out.err
        /\ pc' = IF IsExc(out.err) THEN "failed" ELSE "read"
    /\ included' = included + (IF Admitted(args.domains, csv_row) THEN 1 ELSE 0)
    /\ last_row' = IF Admitted(args.domains, csv_row)
                   THEN SetItem(last_row, str_lower(csv_row["Domain"].val), csv_row)
                   ELSE last_row
    /\ csv_row' = NoRow
    /\ UNCHANGED <<args, n_read, _domains, _count_values, _failed_domains, stdout,
                   file, order, second>>

\* parser.parse_row(row) with parser a TrustymailReport.
ParseRowTrustymail ==
    /\ pc = "parse"
    /\ args.report = "trustymail"
    /\ LET out == TrustymailParseRow(_count_values, _failed_domains, _domains, csv_row) IN
        /\ _count_values' = out.counts
        /\ _failed_domains' = out.failed
        /\ err' = out.err
        /\ pc' = IF IsExc(out.err) THEN "failed" ELSE "read"
    /\ included' = included + (IF Admitted(args.domains, csv_row) THEN 1 ELSE 0)
    /\ csv_row' = NoRow
    /\ UNCHANGED <<args, n_read, _domains, _results, last_row, stdout, file, order,
                   second>>

\* The reader is exhausted: parser.output_results() and main returns.
OutputResults ==
    /\ pc = "read"
    /\ pc' = "done"
    /\ stdout' = IF args.report = "https" THEN HTTPSOutputResults(_results)
                 ELSE TrustymailOutputResults(_failed_domains, _count_values)
    /\ UNCHANGED <<args, n_read, csv_row, _domains, _results, _count_values,
                   _failed_domains, err, included, last_row, file, order, second>>

Next == ReadRow \/ ParseRowHTTPS \/ ParseRowTrustymail \/ OutputResults

Spec == Init /\ [][Next]_vars

-----------------------------------------------------------------------------
(* The terms the properties are stated in, read off the row as the CSV file *)
(* writes it.                                                               *)

\* The truth value a boolean column of the row stands for.
Reads(row, f) == str_strip_lower(row[f].val) = "true"

validDMARC(row) ==
    Reads(row, "Valid DMARC") \/ Reads(row, "Valid DMARC Record on Base Domain")

policyReject(row) == validDMARC(row) /\ row["DMARC Policy"].val = "reject"

subdomainPolicyReject(row) ==
    validDMARC(row) /\ (\/ ~Reads(row, "Domain Is Base Domain")
                        \/ row["DMARC Subdomain Policy"].val = "reject")

policyPct100(row) == validDMARC(row) /\ row["DMARC Policy Percentage"].val = "100"

dmarcFullyValid(row) ==
    policyReject(row) /\ subdomainPolicyReject(row) /\ policyPct100(row)

spfCovered(row) ==
    IF Reads(row, "Domain Is Base Domain") THEN Reads(row, "Valid SPF")
    ELSE Reads(row, "Valid SPF") \/ (~Reads(row, "SPF Record") /\ dmarcFullyValid(row))

\* The report URIs split on commas, trimmed and lower-cased.
parsedURIs(row) == str_split_strip_lower(row["DMARC Aggregate Report URIs"].val)

ruaMatches(row) ==
    /\ validDMARC(row)
    /\ \E i \in 1..Len(parsedURIs(row)) :
            parsedURIs(row)[i] = "mailto:reports@dmarc.cyber.dhs.gov"

\* The six stages of the funnel in order, with the counter of a domain that
\* passes the stage and the counter of a domain that fails it.
PassCounter == <<"domains_checked", "smtp_valid", "spf_covered", "no_weak_crypto",
                 "dmarc_valid", "bod_compliant">>

FailCounter == <<"domains_skipped", "smtp_invalid", "spf_not_covered",
                 "has_weak_crypto", "dmarc_invalid", "bod_failed">>

StagePasses(row, k) ==
    CASE k = 1 -> Reads(row, "Domain Is Base Domain") \/ Reads(row, "Domain Supports SMTP")
      [] k = 2 -> \/ (Reads(row, "Domain Supports SMTP")
                        /\ Reads(row, "Domain Supports STARTTLS"))
                  \/ ~Reads(row, "Domain Supports SMTP")
      [] k = 3 -> spfCovered(row)
      [] k = 4 -> ~Reads(row, "Domain Supports Weak Crypto")
      [] k = 5 -> dmarcFullyValid(row)
      [] k = 6 -> ruaMatches(row)

\* The first stage the row fails; 7 for a row that passes all six.
FirstFailedStage(row) ==
    IF \A k \in 1..6 : StagePasses(row, k) THEN 7
    ELSE CHOOSE k \in 1..6 :
            ~StagePasses(row, k) /\ \A j \in 1..(k - 1) : StagePasses(row, j)

\* The seven counters a row ends in.
TerminalCounters ==
    {FailCounter[k] : k \in 1..6} \cup {"bod_compliant"}

FunnelCounters ==
    {"total_domains"} \cup {PassCounter[k] : k \in 1..6} \cup {FailCounter[k] : k \in 1..6}

\* What parse_row is to add to a counter for an included row.
ExpectedIncrement(row, name) ==
    LET k == FirstFailedStage(row) IN
    IF \/ name = "total_domains"
       \/ \E j \in 1..6 : j < k /\ name = PassCounter[j]
       \/ k <= 6 /\ name = FailCounter[k]
    THEN 1 ELSE 0

\* A parse_row call of either parser is about to run on csv_row.
TrustymailCall == pc = "parse" /\ args.report = "trustymail"

HTTPSCall == pc = "parse" /\ args.report = "https"

-----------------------------------------------------------------------------
(* Properties of the TrustymailReport funnel. *)

\* C1: after any sequence of TrustymailReport.parse_row calls the counters of
\* every funnel level sum to the counter of the level above:
\* domains_checked + domains_skipped = total_domains, and so on down to
\* bod_compliant + bod_failed = dmarc_valid.
C1_FunnelSums ==
    LET c(name) == Count(_count_values, name) IN
    /\ c("domains_checked") + c("domains_skipped") = c("total_domains")
    /\ c("smtp_valid") + c("smtp_invalid") = c("domains_checked")
    /\ c("spf_covered") + c("spf_not_covered") = c("smtp_valid")
    /\ c("no_weak_crypto") + c("has_weak_crypto") = c("spf_covered")
    /\ c("dmarc_valid") + c("dmarc_invalid") = c("no_weak_crypto")
    /\ c("bod_compliant") + c("bod_failed") = c("dmarc_valid")

\* Two rows went all the way down the funnel and parted at the last stage.
C1_Witness ==
    /\ Count(_count_values, "bod_compliant") = 1
    /\ Count(_count_values, "bod_failed") = 1
    /\ Count(_count_values, "total_domains") = 2

\* The part of C2 about one call: an included row adds one to total_domains
\* and one to exactly one of the seven terminal counters.
C2_Call ==
    (TrustymailCall /\ Admitted(args.domains, csv_row)) =>
        /\ Count(_count_values', "total_domains")
                = Count(_count_values, "total_domains") + 1
        /\ \E t \in TerminalCounters :
                /\ Count(_count_values', t) = Count(_count_values, t) + 1
                /\ \A u \in TerminalCounters \ {t} :
                        Count(_count_values', u) = Count(_count_values, u)

\* The part of C2 about every state: the terminal counters sum to
\* total_domains, which is the number of included rows.
C2_Sum ==
    LET c(name) == Count(_count_values, name) IN
    args.report = "trustymail" =>
        /\ c("domains_skipped") + c("smtp_invalid") + c("spf_not_covered")
                + c("has_weak_crypto") + c("dmarc_invalid") + c("bod_failed")
                + c("bod_compliant") = c("total_domains")
        /\ c("total_domains") = included

\* C2: every row the domain filter does not exclude, a row of a domain seen
\* before included, adds exactly one to total_domains and to exactly one of the
\* seven terminal counters; so the terminal counters always sum to
\* total_domains, the number of included rows.
C2_EveryRowCountedOnce == []C2_Sum /\ [][C2_Call]_vars

\* Two rows of one domain were both counted: both left a failure record.
C2_Witness ==
    /\ Len(_failed_domains) = 2
    /\ _failed_domains[1].domain = _failed_domains[2].domain
    /\ Count(_count_values, "total_domains") = 2
    /\ Count(_count_values, "dmarc_invalid") = 2

\* C3: for an included row whose first failed stage is k, parse_row adds one
\* to total_domains, to the pass counter of every stage before k and to the
\* fail counter of stage k, and leaves every other counter as it was, the
\* counters of the stages after k included.
C3_StopsAtFirstFailedStage ==
    [][(TrustymailCall /\ Admitted(args.domains, csv_row)) =>
        /\ \A name \in FunnelCounters :
                Count(_count_values', name)
                    = Count(_count_values, name) + ExpectedIncrement(csv_row, name)
        /\ DOMAIN _count_values' \subseteq FunnelCounters]_vars

\* The one row read failed the DMARC stage and would have failed the RUA stage
\* too (its report URIs lack the address): dmarc_invalid counts it, bod_failed
\* does not.
C3_Witness ==
    /\ n_read = 1
    /\ Len(_failed_domains) = 1
    /\ _failed_domains[1].result["RUA URLs"] = <<"mailto:other@example.com">>
    /\ Count(_count_values, "dmarc_invalid") = 1
    /\ Count(_count_values, "no_weak_crypto") = 1
    /\ Count(_count_values, "bod_failed") = 0
    /\ Count(_count_values, "dmarc_valid") = 0

-----------------------------------------------------------------------------
(* Properties of HTTPSReport. *)

\* The five HTTPS fields of a row.
HTTPSFields == {plain_values[i] : i \in 1..Len(plain_values)}

\* The 4-tuple of scores of a row whose five fields are booleans.
ExpectedScores(row) ==
    LET f == Reads(row, "Live") /\ Reads(row, "Base Domain HSTS Preloaded")
        supports == Reads(row, "Domain Supports HTTPS")
        enforces == Reads(row, "Domain Enforces HTTPS")
        hsts == Reads(row, "Domain Uses Strong HSTS")
    IN  << Bool(supports \/ f), Bool(enforces \/ f), Bool(hsts \/ f),
           Bool((supports /\ enforces /\ hsts) \/ f) >>

\* The result of a row: its five fields as booleans and its scores.
ExpectedResult(row) ==
    [f \in HTTPSFields \cup {"Scores"} |->
        IF f = "Scores" THEN ExpectedScores(row) ELSE Bool(Reads(row, f))]

\* The lower-cased Domain of a row.
LowerDomain(row) == str_lower(row["Domain"].val)

\* C4: for every included row (its five fields are booleans) parse_row stores
\* for the domain the ordered 4-tuple (SupportsHTTPS OR f, EnforcesHTTPS OR f,
\* UsesStrongHSTS OR f, (SupportsHTTPS AND EnforcesHTTPS AND UsesStrongHSTS)
\* OR f) with f = Live AND BaseDomainHSTSPreloaded.
C4_ScoreTuple ==
    [][(HTTPSCall /\ Admitted(args.domains, csv_row)) =>
        /\ LowerDomain(csv_row) \in DOMAIN _results'
        /\ _results'[LowerDomain(csv_row)]["Scores"] = ExpectedScores(csv_row)]_vars

\* A domain is stored with the fields Live=true, preloaded=false,
\* supports=false, enforces=true, strong HSTS=false and the scores
\* (false, true, false, false).
C4_Witness ==
    \E d \in DOMAIN _results :
        /\ _results[d]["Live"] = Bool(TRUE)
        /\ _results[d]["Base Domain HSTS Preloaded"] = Bool(FALSE)
        /\ _results[d]["Domain Supports HTTPS"] = Bool(FALSE)
        /\ _results[d]["Domain Enforces HTTPS"] = Bool(TRUE)
        /\ _results[d]["Domain Uses Strong HSTS"] = Bool(FALSE)
        /\ _results[d]["Scores"] = <<Bool(FALSE), Bool(TRUE), Bool(FALSE), Bool(FALSE)>>

\* C5: for every included row with Live=true and Base Domain HSTS
\* Preloaded=true all four stored scores are true, whatever the other three
\* fields are.
C5_FallbackDominance ==
    [][(/\ HTTPSCall
        /\ Admitted(args.domains, csv_row)
        /\ Reads(csv_row, "Live")
        /\ Reads(csv_row, "Base Domain HSTS Preloaded")) =>
        /\ LowerDomain(csv_row) \in DOMAIN _results'
        /\ \A i \in 1..4 : _results'[LowerDomain(csv_row)]["Scores"][i] = Bool(TRUE)]_vars

\* A live, preloaded domain that supports, enforces and has none of the three
\* is stored with four true scores.
C5_Witness ==
    \E d \in DOMAIN _results :
        /\ _results[d]["Live"] = Bool(TRUE)
        /\ _results[d]["Base Domain HSTS Preloaded"] = Bool(TRUE)
        /\ _results[d]["Domain Supports HTTPS"] = Bool(FALSE)
        /\ _results[d]["Domain Enforces HTTPS"] = Bool(FALSE)
        /\ _results[d]["Domain Uses Strong HSTS"] = Bool(FALSE)
        /\ \A i \in 1..4 : _results[d]["Scores"][i] = Bool(TRUE)

\* C6: in both scorers a row is scored iff the filter list is empty or the
\* lower-cased Domain equals a lower-cased filter entry; parse_row on an
\* excluded row leaves the HTTPS result map, every Trustymail counter and the
\* failure list unchanged.
C6_DomainFilter ==
    [][pc = "parse" =>
        IF Admitted(args.domains, csv_row)
        THEN /\ args.report = "https" => LowerDomain(csv_row) \in DOMAIN _results'
             /\ args.report = "trustymail" =>
                    Count(_count_values', "total_domains")
                        = Count(_count_values, "total_domains") + 1
        ELSE /\ _results' = _results
             /\ _count_values' = _count_values
             /\ _failed_domains' = _failed_domains]_vars

\* Under the filter Example.com two rows were read: one was scored, one was
\* excluded.
C6_Witness ==
    /\ args.domains = <<"Example.com">>
    /\ n_read = 2
    /\ pc = "read"
    /\ included = 1
    /\ \/ DOMAIN _results = {"example.com"}
       \/ Count(_count_values, "total_domains") = 1

\* C7: the result map holds exactly one entry per distinct lower-cased Domain
\* among the included rows, and the entry is the result of the last included
\* row of that domain.
C7_OneEntryPerDomainLastWins ==
    args.report = "https" =>
        /\ DOMAIN _results = DOMAIN last_row
        /\ \A d \in DOMAIN _results : _results[d] = ExpectedResult(last_row[d])

\* Two included rows whose Domain differs in letter case only share one entry,
\* which holds the result of the later row.
C7_Witness ==
    /\ args.report = "https"
    /\ included = 2
    /\ DOMAIN _results = {"example.com"}
    /\ last_row["example.com"]["Domain"] = Str("EXAMPLE.com")
    /\ _results["example.com"] = ExpectedResult(last_row["example.com"])

\* C8: after parse_row on an included row the entry of the domain carries the
\* five raw fields and the 4-tuple of scores, also when all four scores are
\* true.
C8_ResultRetained ==
    [][(HTTPSCall /\ Admitted(args.domains, csv_row)) =>
        /\ LowerDomain(csv_row) \in DOMAIN _results'
        /\ LET entry == _results'[LowerDomain(csv_row)] IN
            /\ DOMAIN entry = HTTPSFields \cup {"Scores"}
            /\ \A f \in HTTPSFields : entry[f] = Bool(Reads(csv_row, f))
            /\ Len(entry["Scores"]) = 4]_vars

\* A compliant domain, all four scores true, is in the result map with its
\* five fields.
C8_Witness ==
    \E d \in DOMAIN _results :
        /\ _results[d]["Scores"] = <<Bool(TRUE), Bool(TRUE), Bool(TRUE), Bool(TRUE)>>
        /\ HTTPSFields \subseteq DOMAIN _results[d]
        /\ _results[d]["Domain Supports HTTPS"] = Bool(TRUE)

-----------------------------------------------------------------------------
(* Properties of the failure records of TrustymailReport. *)

\* The row passes the stages 1 to n of the funnel.
PassesThrough(row, n) == \A k \in 1..n : StagePasses(row, k)

\* C9: for every included row that passes stages 1 to 4 and whose
\* dmarcFullyValid is false, parse_row adds one to dmarc_invalid and appends
\* exactly one failure record for the domain of the row, whose three
\* sub-conditions are policyReject, subdomainPolicyReject and policyPct100 as
\* computed from validDMARC = Valid DMARC OR Valid DMARC Record on Base Domain.
C9_DmarcFailureRecord ==
    [][(/\ TrustymailCall
        /\ Admitted(args.domains, csv_row)
        /\ PassesThrough(csv_row, 4)
        /\ ~dmarcFullyValid(csv_row)) =>
        /\ Count(_count_values', "dmarc_invalid")
                = Count(_count_values, "dmarc_invalid") + 1
        /\ Len(_failed_domains') = Len(_failed_domains) + 1
        /\ SubSeq(_failed_domains', 1, Len(_failed_domains)) = _failed_domains
        /\ LET record == _failed_domains'[Len(_failed_domains')] IN
            /\ record.domain = csv_row["Domain"]
            /\ record.result["Valid DMARC"] = Bool(validDMARC(csv_row))
            /\ record.result["Conditions"]
                    = << Bool(policyReject(csv_row)),
                         Bool(subdomainPolicyReject(csv_row)),
                         Bool(policyPct100(csv_row)) >>]_vars

\* A base domain with valid DMARC, policy quarantine, subdomain policy reject
\* and percentage 100 is recorded with policyReject false and the other two
\* sub-conditions true.
C9_Witness ==
    \E i \in 1..Len(_failed_domains) :
        LET result == _failed_domains[i].result IN
        /\ result["Base Domain"] = Bool(TRUE)
        /\ result["Valid DMARC"] = Bool(TRUE)
        /\ result["DMARC Policy"] = Str("quarantine")
        /\ result["DMARC Subdomain Policy"] = Str("reject")
        /\ result["DMARC Policy Percentage"] = Str("100")
        /\ result["Conditions"] = <<Bool(FALSE), Bool(TRUE), Bool(TRUE)>>
        /\ Count(_count_values, "dmarc_invalid") >= 1

\* C10: every included row that passes stage 5 and fails the RUA URL check
\* adds one to bod_failed and appends exactly one failure record that carries
\* the parsed report-URI list of the row.  parse_row counts the row in
\* bod_failed and appends no record.
C10_RuaFailureRecord ==
    [][(/\ TrustymailCall
        /\ Admitted(args.domains, csv_row)
        /\ PassesThrough(csv_row, 5)
        /\ ~ruaMatches(csv_row)) =>
        /\ Count(_count_values', "bod_failed") = Count(_count_values, "bod_failed") + 1
        /\ Len(_failed_domains') = Len(_failed_domains) + 1
        /\ _failed_domains'[Len(_failed_domains')].domain = csv_row["Domain"]
        /\ _failed_domains'[Len(_failed_domains')].result["RUA URLs"]
                = parsedURIs(csv_row)]_vars

-----------------------------------------------------------------------------
(* Properties of the TrustymailReport state over a run. *)

\* Every counter of a fresh TrustymailReport is zero and nothing has failed.
C11_StartsAtZero ==
    /\ \A name \in FunnelCounters : Count(_count_values, name) = 0
    /\ _failed_domains = <<>>

\* No step lowers a counter, and the failure list before the step is a prefix
\* of the failure list after it.
C11_Grows ==
    /\ \A name \in FunnelCounters \cup DOMAIN _count_values :
            Count(_count_values', name) >= Count(_count_values, name)
    /\ Len(_failed_domains') >= Len(_failed_domains)
    /\ SubSeq(_failed_domains', 1, Len(_failed_domains)) = _failed_domains

\* C11: the state of the Trustymail aggregator only grows: every funnel
\* counter starts at zero and no parse_row step lowers it, and the failure
\* list after a step has the list before the step as a prefix.
C11_MonotonicGrowth == C11_StartsAtZero /\ [][C11_Grows]_vars

\* Two rows each left a failure record, in row order, and were counted.
C11_Witness ==
    /\ args.report = "trustymail"
    /\ n_read = 2
    /\ Len(_failed_domains) = 2
    /\ _failed_domains[1].domain # _failed_domains[2].domain
    /\ Count(_count_values, "dmarc_invalid") = 2

-----------------------------------------------------------------------------
(* TrustymailReport used as a library: one report is fed the rows of a file *)
(* in file order, over and over with nothing reset in between, and a second *)
(* fresh report is fed the same rows once, in another order.                *)

\* Rows in the file.
MaxFile == 2

\* The counter a row ends in when a fresh, unfiltered report scores it.
EndsIn(row, counter) ==
    Count(TrustymailParseRow(FreshReport.counts, <<>>, <<>>, row).counts, counter) = 1

\* One row of the subdomain for each of the seven counters a row can end in,
\* and rows of the base domain that end in dmarc_invalid and bod_compliant.
SampleRows ==
    { CHOOSE r \in TrustymailRows :
            r["Domain"] = Str("sub.example.com") /\ EndsIn(r, t) :
        t \in {"domains_skipped", "smtp_invalid", "spf_not_covered", "has_weak_crypto",
               "dmarc_invalid", "bod_failed", "bod_compliant"} }
    \cup { CHOOSE r \in TrustymailRows :
                r["Domain"] = Str("EXAMPLE.com") /\ EndsIn(r, t) :
            t \in {"dmarc_invalid", "bod_compliant"} }

InitReplay ==
    /\ args \in [report : {"trustymail"}, domains : DomainArgs]
    /\ pc = "feed"
    /\ n_read = 0
    /\ csv_row = NoRow
    /\ _domains = LowerAll(args.domains)
    /\ _results = [k \in {} |-> None]
    /\ _count_values = [k \in {} |-> 0]
    /\ _failed_domains = <<>>
    /\ err = NoErr
    /\ included = 0
    /\ last_row = [k \in {} |-> NoRow]
    /\ stdout = NoOutput
    /\ file \in UNION {[1..n -> SampleRows] : n \in 1..MaxFile}
    /\ order \in Permutations(1..Len(file))
    /\ second = FreshReport

\* parse_row on the next row of the file, which starts over when it ends; the
\* report is never reset.  The file is fed twice.
FeedRow ==
    /\ pc = "feed"
    /\ n_read < 2 * Len(file)
    /\ LET row == file[(n_read % Len(file)) + 1]
           out == TrustymailParseRow(_count_values, _failed_domains, _domains, row)
       IN  /\ _count_values' = out.counts
           /\ _failed_domains' = out.failed
           /\ err' = out.err
           /\ included' = included + (IF Admitted(args.domains, row) THEN 1 ELSE 0)
    /\ n_read' = n_read + 1
    /\ UNCHANGED <<args, pc, csv_row, _domains, _results, last_row, stdout, file,
                   order, second>>

\* parse_row of the second report on the next row in its order.
FeedPermuted ==
    /\ pc = "feed"
    /\ second.n < Len(file)
    /\ LET row == file[order[second.n + 1]]
           out == TrustymailParseRow(second.counts, second.failed, _domains, row)
       IN  second' = [n |-> second.n + 1, counts |-> out.counts, failed |-> out.failed]
    /\ UNCHANGED <<args, pc, n_read, csv_row, _domains, _results, _count_values,
                   _failed_domains, err, included, last_row, stdout, file, order>>

NextReplay == FeedRow \/ FeedPermuted

SpecReplay == InitReplay /\ [][NextReplay]_vars

\* The counters of the two reports agree.
SameCounters(counts_a, counts_b) ==
    \A name \in FunnelCounters \cup DOMAIN counts_a \cup DOMAIN counts_b :
        Count(counts_a, name) = Count(counts_b, name)

\* C12: for any list of rows and any permutation of it, a fresh
\* TrustymailReport fed the rows in either order ends with the same value of
\* every funnel counter.
C12_OrderDoesNotMatter ==
    (n_read = Len(file) /\ second.n = Len(file)) =>
        SameCounters(_count_values, second.counts)

\* Two rows were fed in the two orders; both left a failure record, so the
\* failure lists differ in order while the counters are the same.
C12_Witness ==
    /\ pc = "feed"
    /\ n_read = Len(file)
    /\ second.n = Len(file)
    /\ Len(file) = 2
    /\ order = <<2, 1>>
    /\ Len(_failed_domains) = 2
    /\ second.failed = <<_failed_domains[2], _failed_domains[1]>>
    /\ _failed_domains # second.failed
    /\ SameCounters(_count_values, second.counts)

-----------------------------------------------------------------------------
(* cli.main on a CSV file whose rows are not what the scanner writes: a     *)
(* column the header lacks (the key is absent from the row), a row shorter  *)
(* than the header (csv.DictReader fills the value with None), or a boolean *)
(* column with a text that is neither true nor false.                       *)

\* Rows in such a file.
MaxOddRows == 1

\* The boolean columns each parser reads.
BooleanColumns(report) ==
    IF report = "https" THEN {plain_values[i] : i \in 1..Len(plain_values)}
    ELSE {"Domain Is Base Domain", "Valid DMARC", "Valid DMARC Record on Base Domain"}
            \cup FunnelFields

\* The columns each parser reads, Domain aside.
ReadColumns(report) ==
    IF report = "https" THEN BooleanColumns(report)
    ELSE BooleanColumns(report) \cup {DmarcFields[i] : i \in 1..6}

\* The row with one column absent, None or holding an odd text.
Alter(row, f, how) ==
    CASE how = "absent" -> [k \in DOMAIN row \ {f} |-> row[k]]
      [] how = "none" -> [row EXCEPT ![f] = None]
      [] OTHER -> [row EXCEPT ![f] = Str(how)]

OddRows(report) ==
    LET sound == IF report = "https"
                 THEN {r \in HTTPSRows : r["Domain"] = Str("example.com")}
                 ELSE SampleRows
    IN  { Alter(r, f, how) : r \in sound, f \in ReadColumns(report),
                             how \in {"absent", "none"} }
        \cup { Alter(r, f, how) : r \in sound, f \in BooleanColumns(report),
                                  how \in OddTexts }

\* for row in csv_reader: the reader delivers the next row of such a file.
ReadOddRow ==
    /\ pc = "read"
    /\ n_read < MaxOddRows
    /\ \E row \in OddRows(args.report) : csv_row' = row
    /\ n_read' = n_read + 1
    /\ pc' = "parse"
    /\ UNCHANGED <<args, _domains, _results, _count_values, _failed_domains, err,
                   included, last_row, stdout, file, order, second>>

NextOddRows == ReadOddRow \/ ParseRowHTTPS \/ ParseRowTrustymail \/ OutputResults

SpecOddRows == Init /\ [][NextOddRows]_vars

\* The columns the parser reads that the row lacks: the key is absent or the
\* value is None.
MissingColumns(report, row) ==
    {f \in ReadColumns(report) : f \notin DOMAIN row \/ row[f] = None}

\* C14: when an included row lacks a field the scorer reads, parse_row fails
\* with an error that names the field, the run aborts with no report, and the
\* row is neither scored nor skipped silently.  parse_row raises only when it
\* comes to read an absent key; a row whose field is None, or is not read on
\* the path the row takes, is scored without an error.
C14_MissingFieldAborts ==
    [][(/\ pc = "parse"
        /\ Admitted(args.domains, csv_row)
        /\ MissingColumns(args.report, csv_row) # {}) =>
        /\ pc' = "failed"
        /\ IsExc(err')
        /\ err'.val \in MissingColumns(args.report, csv_row)]_vars

TestedColumns(report) ==
    IF report = "https" THEN HTTPSFields
    ELSE {"Domain Is Base Domain", "Domain Supports SMTP", "Domain Supports STARTTLS",
          "Valid SPF", "Domain Supports Weak Crypto", "Valid DMARC"}

\* The tested fields of the row that hold a non-empty text which is neither
\* true nor false.
OddColumns(report, row) ==
    {f \in TestedColumns(report) \cap DOMAIN row :
        /\ row[f].kind = "str"
        /\ row[f].val # ""
        /\ str_strip_lower(row[f].val) \notin {"true", "false"}}

\* The row with True in place of every such text.
AsIfTrue(report, row) ==
    [k \in DOMAIN row |-> IF k \in OddColumns(report, row) THEN Str("True") ELSE row[k]]

\* C18: a boolean-like field that holds a non-empty text which is neither
\* true nor false is left as that text by convert_booleans, and parse_row
\* classifies the row as it classifies the row with True in that field: the
\* same Trustymail counters and failure record or none, the same truth of
\* every HTTPS score and the same listing by output_results.
C18_OddTextCountsAsTrue ==
    [][(/\ pc = "parse"
        /\ Admitted(args.domains, csv_row)
        /\ OddColumns(args.report, csv_row) # {}) =>
        /\ \A f \in OddColumns(args.report, csv_row) :
                convert_booleans(csv_row)[f] = csv_row[f]
        /\ err' = NoErr
        /\ args.report = "trustymail" =>
            LET as_true == TrustymailParseRow(_count_values, _failed_domains, _domains,
                                              AsIfTrue(args.report, csv_row))
            IN  /\ _count_values' = as_true.counts
                /\ Len(_failed_domains') = Len(as_true.failed)
        /\ args.report = "https" =>
            LET as_true == HTTPSParseRow(_results, _domains,
                                         AsIfTrue(args.report, csv_row)).results
                key == LowerDomain(csv_row)
            IN  /\ key \in DOMAIN _results'
                /\ \A i \in 1..4 : Truthy(_results'[key]["Scores"][i])
                                    = Truthy(as_true[key]["Scores"][i])
                /\ FalseIn(_results'[key]["Scores"]) = FalseIn(as_true[key]["Scores"])]_vars

\* A domain whose Domain Supports HTTPS reads Unknown is stored with that text,
\* scored as supporting HTTPS and compliant, and not printed by output_results.
C18_Witness ==
    /\ pc = "done"
    /\ \E d \in DOMAIN _results :
        /\ _results[d]["Domain Supports HTTPS"] = Str("Unknown")
        /\ _results[d]["Live"] = Bool(FALSE)
        /\ _results[d]["Scores"][1] = Str("Unknown")
        /\ _results[d]["Scores"][4] = Bool(TRUE)
        /\ d \notin DOMAIN stdout.listed

-----------------------------------------------------------------------------
(* Properties of the derived values of TrustymailReport.parse_row. *)

\* The report-URI texts of the rows that list the address
\* mailto:reports@dmarc.cyber.dhs.gov, whatever its letter case and padding.
\* The third text of DmarcCases only contains it inside a longer address.
MatchingURIs ==
    {"mailto:a@example.com, Mailto:Reports@DMARC.cyber.dhs.gov ",
     "mailto:reports@dmarc.cyber.dhs.gov"}

\* valid_dmarc_policy_of_reject of the converted row.
PolicyOfReject(row) ==
    ValidDmarcPolicyOfReject(ValidDmarcPolicyReject(row, ValidDmarc(row)),
                             ValidDmarcSubdomainPolicyReject(row, ValidDmarc(row)),
                             ValidDmarcPolicyPct(row, ValidDmarc(row)))

\* C16: ruaMatches is true iff validDMARC is true and some element of the
\* report URIs, split on commas, trimmed and lower-cased, is exactly
\* mailto:reports@dmarc.cyber.dhs.gov; a row that passes the first five stages
\* ends in bod_compliant when it matches and in bod_failed when it does not.
C16_RuaMatches ==
    [][TrustymailCall =>
        LET row == convert_booleans(csv_row)
            matches == /\ validDMARC(csv_row)
                       /\ csv_row["DMARC Aggregate Report URIs"].val \in MatchingURIs
        IN  /\ ValidDmarcBod1801RuaUrl(row, ValidDmarc(row)) = Bool(matches)
            /\ (Admitted(args.domains, csv_row) /\ PassesThrough(csv_row, 5)) =>
                /\ Count(_count_values', "bod_compliant")
                        = Count(_count_values, "bod_compliant") + (IF matches THEN 1 ELSE 0)
                /\ Count(_count_values', "bod_failed")
                        = Count(_count_values, "bod_failed") + (IF matches THEN 0 ELSE 1)]_vars

\* A first row matched and was counted compliant; the row in hand passes the
\* first five stages with a report URI that only contains the address, and
\* does not match.
C16_Witness ==
    /\ TrustymailCall
    /\ n_read = 2
    /\ Count(_count_values, "bod_compliant") = 1
    /\ csv_row["DMARC Aggregate Report URIs"]
            = Str("mailto:reports@dmarc.cyber.dhs.gov.example.com")
    /\ PassesThrough(csv_row, 5)
    /\ Admitted(args.domains, csv_row)
    /\ ValidDmarcBod1801RuaUrl(convert_booleans(csv_row),
                               ValidDmarc(convert_booleans(csv_row))) = Bool(FALSE)

\* C17: for a base domain spfCovered is Valid SPF alone; for a subdomain it is
\* Valid SPF OR (no SPF record AND dmarcFullyValid); a row that passes the
\* first two stages ends the SPF stage in spf_covered when spfCovered holds and
\* in spf_not_covered when it does not.
C17_SpfStage ==
    [][TrustymailCall =>
        LET row == convert_booleans(csv_row)
            covered == IF Reads(csv_row, "Domain Is Base Domain")
                       THEN Reads(csv_row, "Valid SPF")
                       ELSE \/ Reads(csv_row, "Valid SPF")
                            \/ (~Reads(csv_row, "SPF Record") /\ dmarcFullyValid(csv_row))
        IN  /\ Truthy(SpfCovered(row, PolicyOfReject(row))) = covered
            /\ (Admitted(args.domains, csv_row) /\ PassesThrough(csv_row, 2)) =>
                /\ Count(_count_values', "spf_covered")
                        = Count(_count_values, "spf_covered") + (IF covered THEN 1 ELSE 0)
                /\ Count(_count_values', "spf_not_covered")
                        = Count(_count_values, "spf_not_covered")
                            + (IF covered THEN 0 ELSE 1)]_vars

\* A first row ended the SPF stage in spf_not_covered; the row in hand is an
\* included subdomain past the first two stages, without valid SPF and without
\* an SPF record, whose DMARC policy is fully valid, and it is covered.
C17_Witness ==
    /\ TrustymailCall
    /\ n_read = 2
    /\ Admitted(args.domains, csv_row)
    /\ PassesThrough(csv_row, 2)
    /\ Count(_count_values, "spf_not_covered") = 1
    /\ ~Reads(csv_row, "Domain Is Base Domain")
    /\ ~Reads(csv_row, "Valid SPF")
    /\ ~Reads(csv_row, "SPF Record")
    /\ dmarcFullyValid(csv_row)
    /\ Truthy(SpfCovered(convert_booleans(csv_row),
                         PolicyOfReject(convert_booleans(csv_row))))

-----------------------------------------------------------------------------
(* Properties of HTTPSReport.output_results. *)

\* C19: output_results prints a record for exactly the stored domains that
\* are not compliant: a domain is listed iff its fourth score is not true,
\* which for every stored result is the same as one of its four scores being
\* false.  A row shorter than the header is stored with scores of None, which
\* are neither true nor False, and is not listed.
C19_ListsExactlyNonCompliant ==
    (pc = "done" /\ args.report = "https") =>
        \A d \in DOMAIN _results :
            LET scores == _results[d]["Scores"] IN
            /\ d \in DOMAIN stdout.listed <=> ~Truthy(scores[4])
            /\ ~Truthy(scores[4]) <=> FalseIn(scores)
            /\ d \in DOMAIN stdout.listed => stdout.listed[d] = _results[d]

====
